---- MODULE Spec2Model ----
(***************************************************************************)
(* Model of gw_eccentricity's eccDefinition.py: the estimator class        *)
(* eccDefinition (constructor, interp_extrema, measure_ecc), the helper    *)
(* get_peak_via_quadratic_fit and the spin checks of generate_waveform.    *)
(*                                                                         *)
(* Floating-point numbers are modelled as exact rationals [num, den] in    *)
(* lowest terms with den > 0; every non-finite float (inf, -inf, nan) is   *)
(* the one value NonFinite.  Python sequences are 0-based: At(s, i) is     *)
(* s[i] of the source.                                                     *)
(***************************************************************************)
EXTENDS Integers, Sequences, FiniteSets, TLC

VARIABLES
    dataDict,   \* the caller's dictionary: [t |-> times, h22 |-> hlm[(2, 2)]]
    finder,     \* the find_extrema override of the estimator's subclass
    self,       \* the eccDefinition object (a record of its attributes)
    ctor,       \* outcome of the constructor call: its peak fit, and the
                \* object as the constructor left it
    call,       \* arguments of the last measure_ecc call
    result,     \* outcome of the last measure_ecc call
    gen,        \* arguments and outcome of a generate_waveform call
    pc          \* "new", "constructed", "failed", "called", "gen", "gendone"

vars == <<dataDict, finder, self, ctor, call, result, gen, pc>>

None == "None"

(***************************************************************************)
(* Bounds of the model.                                                    *)
(***************************************************************************)
MaxLen == 5          \* longest time / strain array given to the constructor
MaxExtrema == 4      \* most extrema a find_extrema override reports
MaxRefs == 2         \* longest sequence passed as t_ref
MaxTolUnits == 2     \* largest in-plane spin component, in units of 1e-5
MaxFitLen == 7       \* longest array given to the quadratic fit on its own

(***************************************************************************)
(* Sequences with Python indexing.                                         *)
(***************************************************************************)
At(s, i) == s[i + 1]

Max2(a, b) == IF a >= b THEN a ELSE b

Min2(a, b) == IF a <= b THEN a ELSE b

\* s[lo:hi] of Python for 0 <= lo: clipped to the length of s.
Slice(s, lo, hi) ==
    LET h == Min2(hi, Len(s))
    IN  IF h <= lo THEN << >> ELSE [i \in 1..(h - lo) |-> s[lo + i]]

RECURSIVE SumSeq(_)
SumSeq(s) == IF s = << >> THEN 0 ELSE Head(s) + SumSeq(Tail(s))

\* All sequences over S of length n.
SeqsOfLen(S, n) == [1..n -> S]

(***************************************************************************)
(* Exact rationals standing for floats.                                    *)
(***************************************************************************)
Abs(x) == IF x < 0 THEN -x ELSE x

RECURSIVE GCD(_, _)
GCD(a, b) == IF b = 0 THEN a ELSE GCD(b, a % b)

NonFinite == [num |-> 0, den |-> 0]

IsFinite(r) == r.den # 0

\* n / d as a float: division by zero gives inf or nan (a warning, no error).
Rat(n, d) ==
    IF d = 0 THEN NonFinite
    ELSE LET g == GCD(Abs(n), Abs(d))
             s == IF d < 0 THEN -1 ELSE 1
         IN  [num |-> (s * n) \div g, den |-> (s * d) \div g]

RInt(n) == [num |-> n, den |-> 1]

RAdd(a, b) ==
    IF ~IsFinite(a) \/ ~IsFinite(b) THEN NonFinite
    ELSE Rat(a.num * b.den + b.num * a.den, a.den * b.den)

RNeg(a) == IF ~IsFinite(a) THEN NonFinite ELSE [num |-> -a.num, den |-> a.den]

RSub(a, b) == RAdd(a, RNeg(b))

RMul(a, b) ==
    IF ~IsFinite(a) \/ ~IsFinite(b) THEN NonFinite
    ELSE Rat(a.num * b.num, a.den * b.den)

RDiv(a, b) ==
    IF ~IsFinite(a) \/ ~IsFinite(b) THEN NonFinite
    ELSE Rat(a.num * b.den, a.den * b.num)

\* Comparisons of finite floats.
RLe(a, b) == a.num * b.den <= b.num * a.den

RLt(a, b) == a.num * b.den < b.num * a.den

(***************************************************************************)
(* get_peak_via_quadratic_fit(t, func).                                    *)
(***************************************************************************)
MinWindow == 5       \* np.ones(5): the fit is over five samples

Raised(e) == [status |-> "raised", error |-> e]

\* np.argmax: the first index of the largest value.
argmax(func) ==
    CHOOSE i \in 0..(Len(func) - 1) :
        /\ \A j \in 0..(Len(func) - 1) : At(func, j) <= At(func, i)
        /\ \A j \in 0..(i - 1) : At(func, j) < At(func, i)

\* index = max(2, min(len(t) - 3, index))
ClampOffByOne(n, i) == Max2(2, Min2(n - 2, i))

ClampIndex(n, i) == Max2(2, Min2(n - 3, i))

Det3(m) ==
      m[1][1] * (m[2][2] * m[3][3] - m[2][3] * m[3][2])
    - m[1][2] * (m[2][1] * m[3][3] - m[2][3] * m[3][1])
    + m[1][3] * (m[2][1] * m[3][2] - m[2][2] * m[3][1])

\* The matrix m with column c replaced by the vector y.
ReplaceCol(m, c, y) ==
    [r \in 1..3 |-> [k \in 1..3 |-> IF k = c THEN y[r] ELSE m[r][k]]]

\* v1.dot(v2) for the rows of xVecs = [ones(5), testTimes, testTimes**2].
Pow(x, e) == IF e = 0 THEN 1 ELSE IF e = 1 THEN x ELSE x * x

GramMatrix(testTimes) ==
    [r \in 1..3 |-> [k \in 1..3 |->
        SumSeq([i \in 1..MinWindow |->
            Pow(testTimes[i], r - 1) * Pow(testTimes[i], k - 1)])]]

\* yVec = [testFuncs.dot(v1) for v1 in xVecs]
YVec(testTimes, testFuncs) ==
    [r \in 1..3 |->
        SumSeq([i \in 1..MinWindow |-> testFuncs[i] * Pow(testTimes[i], r - 1)])]

\* coefs = inv(G) yVec by Cramer's rule: coefs[i] = det(G_i) / det(G).  The
\* least-squares parabola's vertex is returned; a zero coefs[2] divides by
\* zero, which for floats gives a non-finite value and no exception.
get_peak_via_quadratic_fit(t, func) ==
    IF Len(func) = 0
    THEN [status |-> "raised", error |-> "ValueError: argmax of an empty sequence",
          index |-> None]
    ELSE
    LET index == ClampIndex(Len(t), argmax(func))
        Fail(e) == [status |-> "raised", error |-> e, index |-> index]
    IN
    IF index >= Len(t) THEN Fail("IndexError: t[index]") ELSE
    LET tw == Slice(t, index - 2, index + 3)
        testTimes == [i \in 1..Len(tw) |-> tw[i] - At(t, index)]
        testFuncs == Slice(func, index - 2, index + 3)
    IN
    IF Len(testTimes) # MinWindow THEN Fail("ValueError: shapes of xVecs") ELSE
    LET G == GramMatrix(testTimes)
        D == Det3(G)
    IN
    IF D = 0 THEN Fail("LinAlgError: Singular matrix") ELSE
    IF Len(testFuncs) # MinWindow THEN Fail("ValueError: shapes in dot") ELSE
    LET y == YVec(testTimes, testFuncs)
        c0 == Rat(Det3(ReplaceCol(G, 1, y)), D)
        c1 == Rat(Det3(ReplaceCol(G, 2, y)), D)
        c2 == Rat(Det3(ReplaceCol(G, 3, y)), D)
        half == RDiv(c1, RMul(RInt(2), c2))
    IN  [status |-> "ok",
         error |-> None,
         index |-> index,
         coefs |-> <<c0, c1, c2>>,
         tpeak |-> RSub(RInt(At(t, index)), half),
         fpeak |-> RSub(c0, RMul(half, RDiv(c1, RInt(2))))]

(***************************************************************************)
(* eccDefinition.__init__(dataDict).                                       *)
(***************************************************************************)
HalfTurn == 2        \* pi, in the angle unit of the model (pi / 2)

\* np.angle of a sample given in polar form: in (-pi, pi], and 0 for 0.
angle(z) == IF z.abs = 0 THEN 0 ELSE z.ang

\* np.unwrap with the default period 2 pi.
PhaseCorrect(dd) ==
    LET m == ((dd + HalfTurn) % (2 * HalfTurn)) - HalfTurn
        ddmod == IF m = -HalfTurn /\ dd > 0 THEN HalfTurn ELSE m
    IN  IF Abs(dd) < HalfTurn THEN 0 ELSE ddmod - dd

unwrap(p) ==
    [i \in 1..Len(p) |->
        p[i] + SumSeq([j \in 1..(i - 1) |-> PhaseCorrect(p[j + 1] - p[j])])]

\* np.gradient(f, x): second-order differences inside, one-sided at the ends.
GradientAt(f, x, i) ==
    LET n == Len(f) IN
    IF i = 1 THEN RDiv(RInt(f[2] - f[1]), RSub(x[2], x[1]))
    ELSE IF i = n THEN RDiv(RInt(f[n] - f[n - 1]), RSub(x[n], x[n - 1]))
    ELSE LET dx1 == RSub(x[i], x[i - 1])
             dx2 == RSub(x[i + 1], x[i])
             a == RNeg(RDiv(dx2, RMul(dx1, RAdd(dx1, dx2))))
             b == RDiv(RSub(dx2, dx1), RMul(dx1, dx2))
             c == RDiv(dx1, RMul(dx2, RAdd(dx1, dx2)))
         IN  RAdd(RAdd(RMul(a, RInt(f[i - 1])), RMul(b, RInt(f[i]))),
                  RMul(c, RInt(f[i + 1])))

gradient(f, x) ==
    IF Len(f) < 2 \/ Len(x) # Len(f)
    THEN Raised("ValueError: gradient")
    ELSE [status |-> "ok", value |-> [i \in 1..Len(f) |-> GradientAt(f, x, i)]]

\* The attributes the constructor sets, or the exception that ends it.
eccDefinition_init(d) ==
    LET time0 == d.t
        h22 == d.h22
        amp22 == [i \in 1..Len(h22) |-> h22[i].abs]
        peak == get_peak_via_quadratic_fit(time0, amp22)
    IN
    IF peak.status = "raised" THEN [status |-> "raised", error |-> peak.error,
                                    peak |-> peak, obj |-> None]
    ELSE
    LET time == [i \in 1..Len(time0) |-> RSub(RInt(time0[i]), peak.tpeak)]
        ang == [i \in 1..Len(h22) |-> angle(h22[i])]
        un == unwrap(ang)
        phase22 == [i \in 1..Len(un) |-> -un[i]]
        omega == gradient(phase22, time)
    IN
    IF omega.status = "raised" THEN [status |-> "raised", error |-> omega.error,
                                     peak |-> peak, obj |-> None]
    ELSE [status |-> "ok", error |-> None, peak |-> peak,
          obj |-> [dataDict |-> d, time |-> time, h22 |-> h22, amp22 |-> amp22,
                   phase22 |-> phase22, omega22 |-> omega.value]]

(***************************************************************************)
(* Inputs.                                                                 *)
(***************************************************************************)
AmpVals == {0, 1}

TimeSteps == {-1, 0, 1}

AngSteps == {1, 3}

\* np.angle's range (-pi, pi].
WrapAngle(a) == ((a + HalfTurn - 1) % (2 * HalfTurn)) - (HalfTurn - 1)

\* Times starting at 0 with the given consecutive differences.
TimesOf(steps) ==
    [i \in 1..(Len(steps) + 1) |-> SumSeq([j \in 1..(i - 1) |-> steps[j]])]

\* Strain samples |h| e^(-i w k) for the amplitudes amps.
Strain(amps, w) ==
    [i \in 1..Len(amps) |-> [abs |-> amps[i], ang |-> WrapAngle(-(w * (i - 1)))]]

\* Every dictionary the constructor is tried on: a time array of up to MaxLen
\* samples, the strain as long as it, one shorter or one longer.
IsAnyDataDict(d) ==
    \E n \in 0..MaxLen :
        \E st \in SeqsOfLen(TimeSteps, Max2(n - 1, 0)) :
            \E m \in {k \in {n - 1, n, n + 1} : k >= 0} :
                \E a \in SeqsOfLen(AmpVals, m), w \in AngSteps :
                    d = [t |-> IF n = 0 THEN << >> ELSE TimesOf(st),
                         h22 |-> Strain(a, w)]

\* The waveforms measure_ecc is exercised on.
GoodDataDicts ==
    {[t |-> <<0, 1, 2, 3, 4>>, h22 |-> Strain(a, 1)] :
        a \in {<<0, 1, 1, 1, 0>>, <<0, 0, 1, 1, 0>>}}

NoCall == [t_ref |-> None]

NoGen == [status |-> None]

(***************************************************************************)
(* Construction.                                                           *)
(***************************************************************************)
InitCtor ==
    /\ IsAnyDataDict(dataDict)
    /\ finder = None
    /\ self = None
    /\ ctor = None
    /\ call = NoCall
    /\ result = None
    /\ gen = NoGen
    /\ pc = "new"

\* est = eccDefinition(dataDict)
Construct ==
    /\ pc = "new"
    /\ \E r \in {eccDefinition_init(dataDict)} :
           /\ ctor' = r
           /\ self' = r.obj
           /\ pc' = IF r.status = "ok" THEN "constructed" ELSE "failed"
    /\ UNCHANGED <<dataDict, finder, call, result, gen>>

(***************************************************************************)
(* The find_extrema override.  The base method raises NotImplementedError; *)
(* a subclass's override is a function of the frame, of which and of the   *)
(* detection parameters.  Here it is fixed per estimator: the index        *)
(* sequences it reports at the default width, and one extremum fewer of    *)
(* each kind at the wider width.                                           *)
(***************************************************************************)
DefaultWidth == 10

WiderWidth == 2 * DefaultWidth

Widths == {DefaultWidth, WiderWidth}

\* The members of a set of indices in increasing order.
RECURSIVE SortedSeq(_)
SortedSeq(S) ==
    IF S = {} THEN << >>
    ELSE LET m == CHOOSE x \in S : \A y \in S : x <= y
         IN  <<m>> \o SortedSeq(S \ {m})

DropLast(s) == IF s = << >> THEN s ELSE SubSeq(s, 1, Len(s) - 1)

\* Overrides on a frame of n samples: maxima and minima are disjoint.
Finders(n) ==
    {[maxima |-> SortedSeq(mx), minima |-> SortedSeq(mn)] :
        <<mx, mn>> \in {pr \in (SUBSET (0..(n - 1))) \X (SUBSET (0..(n - 1))) :
                          /\ pr[1] \cap pr[2] = {}
                          /\ Cardinality(pr[1]) <= MaxExtrema
                          /\ Cardinality(pr[2]) <= MaxExtrema}}

find_extrema(f, which, width) ==
    IF width = DefaultWidth THEN f[which] ELSE DropLast(f[which])

(***************************************************************************)
(* scipy's InterpolatedUnivariateSpline, as far as measure_ecc depends on  *)
(* it: building a spline of degree k needs more than k points; a query     *)
(* outside [x[0], x[-1]] is answered according to ext (0 extrapolate,      *)
(* 1 zero, 2 raise ValueError, 3 the boundary value).  The value of a      *)
(* spline is kept symbolic: which spline, how it was evaluated, and where. *)
(***************************************************************************)
ExtExtrapolate == 0

ExtZeros == 1

ExtRaise == 2

ExtConst == 3

InterpolatedUnivariateSpline(through, x, y, conf) ==
    IF Len(x) <= conf.k
    THEN Raised("dfitpack.error: (m>k) failed")
    ELSE [status |-> "ok",
          value |-> [through |-> through, x |-> x, y |-> y, w |-> conf.w,
                     bbox |-> conf.bbox, k |-> conf.k, ext |-> conf.ext,
                     check_finite |-> conf.check_finite]]

SplineEval(sp, at) ==
    LET xb == sp.x[1]
        xe == sp.x[Len(sp.x)]
    IN  IF RLe(xb, at) /\ RLe(at, xe)
        THEN [status |-> "ok", through |-> sp.through, mode |-> "interpolate", at |-> at]
        ELSE IF sp.ext = ExtExtrapolate
        THEN [status |-> "ok", through |-> sp.through, mode |-> "extrapolate", at |-> at]
        ELSE IF sp.ext = ExtZeros
        THEN [status |-> "ok", through |-> sp.through, mode |-> "zero", at |-> at]
        ELSE IF sp.ext = ExtConst
        THEN [status |-> "ok", through |-> sp.through, mode |-> "boundary",
              at |-> IF RLt(at, xb) THEN xb ELSE xe]
        ELSE [status |-> "raised", through |-> sp.through, mode |-> "error", at |-> at]

\* interpolator(times): the values, or the ValueError of ext = 2.
SplineEvalAll(sp, times) ==
    LET vals == [i \in 1..Len(times) |-> SplineEval(sp, times[i])]
    IN  IF \E i \in 1..Len(times) : vals[i].status = "raised"
        THEN Raised("ValueError: spline evaluated out of range")
        ELSE [status |-> "ok", value |-> vals]

(***************************************************************************)
(* eccDefinition.interp_extrema.                                           *)
(***************************************************************************)
TooFewMessage == "...Number of extrema is less than 2. Not able to create an interpolator."

interp_extrema(s, f, which, width, conf) ==
    LET extrema_idx == find_extrema(f, which, width)
    IN  IF Len(extrema_idx) >= 2
        THEN LET sp == InterpolatedUnivariateSpline(which,
                           [i \in 1..Len(extrema_idx) |-> At(s.time, extrema_idx[i])],
                           [i \in 1..Len(extrema_idx) |-> At(s.omega22, extrema_idx[i])],
                           conf)
             IN  IF sp.status = "raised"
                 THEN [status |-> "raised", error |-> sp.error, printed |-> << >>]
                 ELSE [status |-> "ok", returns |-> "pair", spline |-> sp.value,
                       idx |-> extrema_idx, printed |-> << >>]
        ELSE [status |-> "ok", returns |-> "None", printed |-> <<TooFewMessage>>]

(***************************************************************************)
(* eccDefinition.measure_ecc.                                              *)
(***************************************************************************)
\* **kwargs is a set of <<keyword, value>> pairs.
HasKw(kwargs, kw) == \E p \in kwargs : p[1] = kw

GetKw(kwargs, kw) == (CHOOSE p \in kwargs : p[1] = kw)[2]

default_kwargs_const ==
    [w |-> None, bbox |-> <<None, None>>, k |-> 3, ext |-> ExtConst,
     check_finite |-> "False"]

default_kwargs ==
    [w |-> None, bbox |-> <<None, None>>, k |-> 3, ext |-> ExtExtrapolate,
     check_finite |-> "False"]

\* for kw in default_kwargs.keys(): if kw in kwargs: default_kwargs[kw] = kwargs[kw]
MergeKwargs(kwargs) ==
    [kw \in DOMAIN default_kwargs |->
        IF HasKw(kwargs, kw) THEN GetKw(kwargs, kw) ELSE default_kwargs[kw]]

OutOfPeaksMessage == "...reference time must be within two peaks."

FallbackMessage == "...Sufficient number of peaks/troughs are not found. Returning eccentricity to be zero"

Scalar(v) == [shape |-> "scalar", v |-> v]

Array(v) == [shape |-> "array", v |-> v]

\* The literal 0 of the fallback branch, as a spline value and as a float.
ZeroValue == [status |-> "ok", through |-> None, mode |-> "literal 0", at |-> RInt(0)]

\* any(x >= t_peaks), any(x < t_peaks)
AnyGe(x, t_peaks) == \E j \in 1..Len(t_peaks) : RLe(t_peaks[j], x)

AnyLt(x, t_peaks) == \E j \in 1..Len(t_peaks) : RLt(x, t_peaks[j])

\* np.where(t_peaks <= time)[0]: the 0-based positions, in increasing order.
where_lt(t_peaks, time) ==
    SortedSeq({j \in 0..(Len(t_peaks) - 1) : RLt(At(t_peaks, j), time)})

where_le(t_peaks, time) ==
    SortedSeq({j \in 0..(Len(t_peaks) - 1) : RLe(At(t_peaks, j), time)})

\* One pass of the loop over t_ref: the mean anomaly in units of 2 pi, or the
\* IndexError of an empty np.where result or of t_peaks[idx_at_last_peak + 1].
MeanAnoAt(t_peaks, time) ==
    LET found == where_le(t_peaks, time)
    IN  IF Len(found) = 0 THEN Raised("IndexError: np.where(...)[0][-1]")
        ELSE LET idx_at_last_peak == found[Len(found)]
             IN  IF idx_at_last_peak + 1 >= Len(t_peaks)
                 THEN Raised("IndexError: t_peaks[idx_at_last_peak + 1]")
                 ELSE LET t_at_last_peak == At(t_peaks, idx_at_last_peak)
                          t_at_next_peak == At(t_peaks, idx_at_last_peak + 1)
                          mean_ano == RSub(time, t_at_last_peak)
                      IN  [status |-> "ok",
                           value |-> RDiv(mean_ano,
                                          RSub(t_at_next_peak, t_at_last_peak))]

Fails(e, splines, printed) ==
    [status |-> "raised", error |-> e, splines |-> splines, printed |-> printed]

\* Lines 123-147: both interpolators exist.
MeasureWithInterpolators(s, t_ref, conf, pk, tr) ==
    LET built == <<pk.spline, tr.spline>>
        pv == SplineEvalAll(pk.spline, s.time)
        tv == SplineEvalAll(tr.spline, s.time)
    IN
    IF pv.status = "raised" THEN Fails(pv.error, built, << >>) ELSE
    IF tv.status = "raised" THEN Fails(tv.error, built, << >>) ELSE
    LET eccVals == [i \in 1..Len(s.time) |->
                        [peaks |-> pv.value[i], troughs |-> tv.value[i]]]
        es == InterpolatedUnivariateSpline("ecc", s.time, eccVals, conf)
    IN
    IF es.status = "raised" THEN Fails(es.error, built, << >>) ELSE
    LET splines == built \o <<es.value>>
        ecc == SplineEvalAll(es.value, t_ref)
    IN
    IF ecc.status = "raised" THEN Fails(ecc.error, splines, << >>) ELSE
    LET t_peaks == [i \in 1..Len(pk.idx) |-> At(s.time, pk.idx[i])]
    IN
    IF ~(AnyGe(t_ref[1], t_peaks) /\ AnyLt(t_ref[Len(t_ref)], t_peaks))
    THEN Fails(OutOfPeaksMessage, splines, << >>) ELSE
    LET ma == [i \in 1..Len(t_ref) |-> MeanAnoAt(t_peaks, t_ref[i])]
    IN
    IF \E i \in 1..Len(t_ref) : ma[i].status = "raised"
    THEN Fails(ma[CHOOSE i \in 1..Len(t_ref) :
                    /\ ma[i].status = "raised"
                    /\ \A j \in 1..(i - 1) : ma[j].status = "ok"].error,
               splines, << >>)
    ELSE
    LET mean_ano_ref == [i \in 1..Len(t_ref) |-> ma[i].value]
    IN  [status |-> "returned", error |-> None, splines |-> splines,
         printed |-> << >>,
         ecc_ref |-> IF Len(t_ref) = 1 THEN Scalar(ecc.value[1])
                     ELSE Array(ecc.value),
         mean_ano_ref |-> IF Len(t_ref) = 1 THEN Scalar(mean_ano_ref[1])
                          ELSE Array(mean_ano_ref)]

\* measure_ecc(t_ref, width=width, **kwargs) on the estimator s whose
\* find_extrema is f.
measure_ecc(s, f, t_ref, width, kwargs) ==
    LET tr0 == IF t_ref.shape = "scalar" THEN <<t_ref.v>> ELSE t_ref.v
        conf == MergeKwargs(kwargs)
        pk == interp_extrema(s, f, "maxima", width, conf)
    IN
    IF pk.status = "raised" THEN Fails(pk.error, << >>, pk.printed) ELSE
    IF pk.returns = "None"
    THEN Fails("TypeError: cannot unpack non-iterable NoneType object",
               << >>, pk.printed)
    ELSE
    LET tr == interp_extrema(s, f, "minima", width, conf)
    IN
    IF tr.status = "raised" THEN Fails(tr.error, <<pk.spline>>, tr.printed) ELSE
    IF tr.returns = "None"
    THEN Fails("TypeError: 'NoneType' object is not subscriptable",
               <<pk.spline>>, tr.printed)
    ELSE
    \* if peaks_interpolator is None or troughs_interpolator is None: never
    \* true here, both being splines; the branch is kept as the source has it.
    IF pk.returns = "None" \/ tr.returns = "None"
    THEN [status |-> "returned", error |-> None, splines |-> << >>,
          printed |-> <<FallbackMessage>>,
          ecc_ref |-> Scalar(ZeroValue), mean_ano_ref |-> Scalar(RInt(0))]
    ELSE MeasureWithInterpolators(s, tr0, conf, pk, tr)

(***************************************************************************)
(* Calls of measure_ecc.                                                   *)
(***************************************************************************)
\* Reference times: every sample time, a time between two samples, and a
\* time on either side of the whole frame.
RefTimes(time) ==
    {time[i] : i \in 1..Len(time)}
        \cup {RSub(time[1], RInt(1)), RAdd(time[Len(time)], RInt(1)),
              RAdd(time[2], Rat(1, 2))}

SampleTimes(time) == {time[i] : i \in 1..Len(time)}

KwargSets ==
    {{}, {<<"ext", ExtZeros>>}, {<<"ext", ExtRaise>>}, {<<"ext", ExtConst>>},
     {<<"k", 1>>}, {<<"k", 1>>, <<"ext", ExtRaise>>}, {<<"check_finite", "True">>}}

\* Degree 1, which the few extrema of a short frame are enough for.
LinearKwargs == {<<"k", 1>>}

Init ==
    /\ dataDict \in GoodDataDicts
    /\ finder \in Finders(MinWindow)
    /\ self = None
    /\ ctor = None
    /\ call = NoCall
    /\ result = None
    /\ gen = NoGen
    /\ pc = "new"

\* A call that, besides computing its result, moves self.time back by one
\* time unit.
MeasureEccCallShifting(t_ref, width, kwargs, next) ==
    /\ \E r \in {measure_ecc(self, finder, t_ref, width, kwargs)} : result' = r
    /\ call' = [t_ref |-> t_ref, width |-> width, kwargs |-> kwargs]
    /\ self' = [self EXCEPT !.time =
                    [i \in 1..Len(self.time) |->
                        RSub(self.time[i], RInt(1))]]
    /\ pc' = next
    /\ UNCHANGED <<dataDict, finder, ctor, gen>>

\* ecc_ref, mean_ano_ref = est.measure_ecc(t_ref, width=width, **kwargs): the
\* method assigns to locals only.
MeasureEccCall(t_ref, width, kwargs, next) ==
    /\ \E r \in {measure_ecc(self, finder, t_ref, width, kwargs)} : result' = r
    /\ call' = [t_ref |-> t_ref, width |-> width, kwargs |-> kwargs]
    /\ pc' = next
    /\ UNCHANGED <<dataDict, finder, self, ctor, gen>>

MeasureScalar ==
    /\ pc = "constructed"
    /\ \E x \in RefTimes(self.time), width \in Widths, kwargs \in KwargSets :
           MeasureEccCall(Scalar(x), width, kwargs, "called")

MeasureSequence ==
    /\ pc = "constructed"
    /\ \E n \in 1..MaxRefs :
           \E ts \in SeqsOfLen(SampleTimes(self.time), n) :
               MeasureEccCall(Array(ts), DefaultWidth, LinearKwargs, "called")

\* A later call on the same estimator.
MeasureAgain ==
    /\ pc = "called"
    /\ \E x \in RefTimes(self.time) :
           MeasureEccCall(Scalar(x), DefaultWidth, LinearKwargs, "called again")

Next == Construct \/ MeasureScalar \/ MeasureSequence \/ MeasureAgain

Spec == Init /\ [][Next]_vars

(***************************************************************************)
(* generate_waveform: the checks on the spins before LALSimulation is      *)
(* called.  A spin component is q + r * 1e-5 with small integers q and r,  *)
(* kept as the record [q, r]; sums of such numbers and of their squares    *)
(* are kept by powers of 1e-5 and compared power by power, which is exact  *)
(* while the entries stay far below 1e5.                                   *)
(***************************************************************************)
Sp(q, r) == [q |-> q, r |-> r]

\* 1e-5, the tolerance of line 211.
Tolerance == Sp(0, 1)

SpAbs(x) == IF x.q < 0 \/ (x.q = 0 /\ x.r < 0) THEN Sp(-x.q, -x.r) ELSE x

SpGt(a, b) == a.q > b.q \/ (a.q = b.q /\ a.r > b.r)

\* np.sum(chi[:2]) without the absolute values.
InPlaneSigned(chi) ==
    LET head == Slice(chi, 0, 2)
    IN  Sp(SumSeq([i \in 1..Len(head) |-> head[i].q]),
           SumSeq([i \in 1..Len(head) |-> head[i].r]))

\* np.sum(np.sqrt(chi[:2]**2))
InPlane(chi) ==
    LET head == Slice(chi, 0, 2)
    IN  Sp(SumSeq([i \in 1..Len(head) |-> SpAbs(head[i]).q]),
           SumSeq([i \in 1..Len(head) |-> SpAbs(head[i]).r]))

\* np.sum(v**2) as <<units, 1e-5s, 1e-10s>>.
SumSquares(v) ==
    <<SumSeq([i \in 1..Len(v) |-> v[i].q * v[i].q]),
      SumSeq([i \in 1..Len(v) |-> 2 * v[i].q * v[i].r]),
      SumSeq([i \in 1..Len(v) |-> v[i].r * v[i].r])>>

\* a > b for such triples.
TripleGt(a, b) ==
    \/ a[1] > b[1]
    \/ a[1] = b[1] /\ a[2] > b[2]
    \/ a[1] = b[1] /\ a[2] = b[2] /\ a[3] > b[3]

\* np.sqrt(np.sum(chi**2)) > 1
OutOfRange(chi) == TripleGt(SumSquares(chi), <<1, 0, 0>>)

\* chi[:2] = 0
ZeroInPlane(chi) == [i \in 1..Len(chi) |-> IF i <= 2 THEN Sp(0, 0) ELSE chi[i]]

generate_waveform(chi1_in, chi2_in, alignedSpin) ==
    IF alignedSpin /\ (SpGt(InPlane(chi1_in), Tolerance)
                         \/ SpGt(InPlane(chi2_in), Tolerance))
    THEN Raised("Got precessing spins for aligned spin approximant.")
    ELSE
    LET chi1 == IF alignedSpin /\ InPlane(chi1_in) # Sp(0, 0)
                THEN ZeroInPlane(chi1_in) ELSE chi1_in
        chi2 == IF alignedSpin /\ InPlane(chi2_in) # Sp(0, 0)
                THEN ZeroInPlane(chi2_in) ELSE chi2_in
    IN  IF OutOfRange(chi1) THEN Raised("chi1 out of range.")
        ELSE IF OutOfRange(chi2) THEN Raised("chi2 out of range.")
        ELSE IF Len(chi1) # 3 THEN Raised("chi1 must have size 3.")
        ELSE IF Len(chi2) # 3 THEN Raised("chi2 must have size 3.")
        ELSE [status |-> "SimInspiralChooseTDWaveform", error |-> None,
              chi1 |-> chi1, chi2 |-> chi2]

\* Spin components: 0, 1, 1 + 1e-5, the tolerance itself and multiples of it.
SpinVals ==
    {Sp(0, 0), Sp(1, 0), Sp(1, 1), Sp(0, -MaxTolUnits)}
        \cup {Sp(0, r) : r \in 1..(MaxTolUnits - 1)}

\* Spin vectors of 2, 3 and 4 components.
SpinVectors ==
    SeqsOfLen(SpinVals, 2) \cup SeqsOfLen(SpinVals, 3)
        \cup {v \o <<Sp(0, 0)>> : v \in SeqsOfLen(SpinVals, 3)}

InitGen ==
    /\ dataDict = None
    /\ finder = None
    /\ self = None
    /\ ctor = None
    /\ call = NoCall
    /\ result = None
    /\ gen \in [status : {"args"}, chi1 : SpinVectors, chi2 : SpinVectors,
                alignedSpin : BOOLEAN]
    /\ pc = "gen"

GenerateWaveform ==
    /\ pc = "gen"
    /\ \E r \in {generate_waveform(gen.chi1, gen.chi2, gen.alignedSpin)} :
           gen' = [status |-> r.status, args |-> gen, outcome |-> r]
    /\ pc' = "gen done"
    /\ UNCHANGED <<dataDict, finder, self, ctor, call, result>>

NextGen == GenerateWaveform

SpecGen == InitGen /\ [][NextGen]_vars

NextCtor == Construct

SpecCtor == InitCtor /\ [][NextCtor]_vars

(***************************************************************************)
(* get_peak_via_quadratic_fit on its own: unit-spaced times and every      *)
(* array of values in FuncVals of MinWindow to MaxFitLen samples.          *)
(***************************************************************************)
FuncVals == {0, 1, 2}

InitFit ==
    /\ \E n \in MinWindow..MaxFitLen :
           \E a \in SeqsOfLen(FuncVals, n) :
               dataDict = [t |-> [i \in 1..n |-> i - 1], h22 |-> Strain(a, 1)]
    /\ finder = None
    /\ self = None
    /\ ctor = None
    /\ call = NoCall
    /\ result = None
    /\ gen = NoGen
    /\ pc = "fit"

\* get_peak_via_quadratic_fit(t, np.abs(h22))
FitPeak ==
    /\ pc = "fit"
    /\ \E r \in {get_peak_via_quadratic_fit(dataDict.t,
                       [i \in 1..Len(dataDict.h22) |-> dataDict.h22[i].abs])} :
           ctor' = [status |-> "fit", error |-> None, peak |-> r, obj |-> None]
    /\ pc' = "fit done"
    /\ UNCHANGED <<dataDict, finder, self, call, result, gen>>

NextFit == FitPeak

SpecFit == InitFit /\ [][NextFit]_vars

(***************************************************************************)
(* What the last measure_ecc call was given and what the finder reported.  *)
(***************************************************************************)
Called == pc \in {"called", "called again"}

CallRefs == IF call.t_ref.shape = "scalar" THEN <<call.t_ref.v>> ELSE call.t_ref.v

FoundMaxima == find_extrema(finder, "maxima", call.width)

FoundMinima == find_extrema(finder, "minima", call.width)

PeakTimes == [i \in 1..Len(FoundMaxima) |-> At(self.time, FoundMaxima[i])]

ValuesOf(out) == IF out.shape = "scalar" THEN <<out.v>> ELSE out.v

\* The largest 0-based k with t_peaks[k] <= x.
EnclosingPeak(t_peaks, x) ==
    CHOOSE k \in 0..(Len(t_peaks) - 1) :
        /\ RLe(At(t_peaks, k), x)
        /\ \A j \in 0..(Len(t_peaks) - 1) : RLe(At(t_peaks, j), x) => j <= k

(***************************************************************************)
(* C1: whenever the finder reports fewer than 2 maxima or fewer than 2     *)
(* minima, measure_ecc returns normally, with eccentricity 0 and mean      *)
(* anomaly 0 for every requested reference time.                           *)
(***************************************************************************)
C1_FallbackToZero ==
    (Called /\ (Len(FoundMaxima) < 2 \/ Len(FoundMinima) < 2))
        => /\ result.status = "returned"
           /\ \A i \in 1..Len(ValuesOf(result.ecc_ref)) :
                  ValuesOf(result.ecc_ref)[i] = ZeroValue
           /\ \A i \in 1..Len(ValuesOf(result.mean_ano_ref)) :
                  ValuesOf(result.mean_ano_ref)[i] = RInt(0)

(***************************************************************************)
(* C2: with at least 2 maxima and 2 minima found, a call in which some     *)
(* reference time is before the first peak or at/after the last peak ends  *)
(* with the "reference time must be within two peaks" error and with no    *)
(* other failure.                                                          *)
(***************************************************************************)
SomeRefOutsidePeaks ==
    \E i \in 1..Len(CallRefs) :
        \/ RLt(CallRefs[i], PeakTimes[1])
        \/ RLe(PeakTimes[Len(PeakTimes)], CallRefs[i])

C2_ExplicitError ==
    (Called /\ Len(FoundMaxima) >= 2 /\ Len(FoundMinima) >= 2 /\ SomeRefOutsidePeaks)
        => (result.status = "raised" /\ result.error = OutOfPeaksMessage)

(***************************************************************************)
(* C3: a returned mean anomaly is, in units of 2 pi, the fraction          *)
(* (t_ref - t_peaks[k]) / (t_peaks[k+1] - t_peaks[k]) for the largest k    *)
(* with t_peaks[k] <= t_ref; it lies in [0, 1), is 0 at a peak time, and   *)
(* is strictly increasing in t_ref within one peak-to-peak interval.       *)
(***************************************************************************)
C3_MeanAnomaly ==
    (Called /\ result.status = "returned")
        => LET m == ValuesOf(result.mean_ano_ref)
               K(i) == EnclosingPeak(PeakTimes, CallRefs[i])
           IN  /\ Len(m) = Len(CallRefs)
               /\ \A i \in 1..Len(m) :
                      /\ RLe(PeakTimes[1], CallRefs[i])
                      /\ RLt(CallRefs[i], PeakTimes[Len(PeakTimes)])
                      /\ RMul(m[i], RSub(At(PeakTimes, K(i) + 1), At(PeakTimes, K(i))))
                             = RSub(CallRefs[i], At(PeakTimes, K(i)))
                      /\ RLe(RInt(0), m[i]) /\ RLt(m[i], RInt(1))
                      /\ (CallRefs[i] = At(PeakTimes, K(i)) => m[i] = RInt(0))
               /\ \A i, j \in 1..Len(m) :
                      (K(i) = K(j) /\ RLt(CallRefs[i], CallRefs[j]))
                          => RLt(m[i], m[j])

\* A call with two reference times inside one peak-to-peak interval, the
\* first of them on the second of at least three peaks, has returned.
C3_Witness ==
    /\ Called /\ result.status = "returned"
    /\ Len(CallRefs) = 2
    /\ Len(PeakTimes) >= 3
    /\ CallRefs[1] = PeakTimes[2]
    /\ RLt(CallRefs[1], CallRefs[2])
    /\ EnclosingPeak(PeakTimes, CallRefs[2]) = 1

(***************************************************************************)
(* C4: on every returning path both outputs have the container shape of    *)
(* t_ref: scalars for a scalar, sequences of length n for a sequence of    *)
(* length n >= 1.                                                          *)
(***************************************************************************)
MirrorsShape(out) ==
    IF call.t_ref.shape = "scalar" THEN out.shape = "scalar"
    ELSE out.shape = "array" /\ Len(out.v) = Len(call.t_ref.v)

C4_ShapeMirrors ==
    (Called /\ result.status = "returned")
        => (MirrorsShape(result.ecc_ref) /\ MirrorsShape(result.mean_ano_ref))

(***************************************************************************)
(* C5: no measure_ecc call changes the estimator (its frame, or any other  *)
(* attribute, cached extrema included) or the caller's dictionary: the     *)
(* estimator stays as the constructor left it, and the outcome of every    *)
(* call is the outcome that estimator gives for the same arguments.        *)
(***************************************************************************)
C5_CallsArePure ==
    /\ [][(pc \in {"constructed", "called"})
             => (self' = self /\ dataDict' = dataDict)]_vars
    /\ [](Called =>
             /\ self = ctor.obj
             /\ result = measure_ecc(ctor.obj, finder,
                                     call.t_ref, call.width, call.kwargs))

\* A second call on the same estimator has returned a value.
C5_Witness == pc = "called again" /\ result.status = "returned"

(***************************************************************************)
(* C8 as stated: with no extrapolation mode given, every spline built is   *)
(* configured to return the boundary value outside its range.              *)
(***************************************************************************)
NoExtGiven == Called /\ ~HasKw(call.kwargs, "ext")

C8_DefaultBoundaryValue ==
    NoExtGiven => \A i \in 1..Len(result.splines) : result.splines[i].ext = ExtConst

(***************************************************************************)
(* C8 as amended: with no extrapolation mode given, every spline built     *)
(* (through the maxima, the minima and the eccentricity values, three when *)
(* the call returns) is configured with ext = 0, scipy's extrapolate mode: *)
(* a sample time outside the range of the maxima or minima is evaluated by *)
(* extrapolation, neither as the boundary value nor as a failure.  The     *)
(* other defaults are degree 3 and finiteness checking skipped.            *)
(***************************************************************************)
InRangeOf(sp, x) == RLe(sp.x[1], x) /\ RLe(x, sp.x[Len(sp.x)])

C8_DefaultExtrapolates ==
    NoExtGiven =>
        /\ \A i \in 1..Len(result.splines) :
               LET sp == result.splines[i]
               IN  /\ sp.ext = ExtExtrapolate
                   /\ ~HasKw(call.kwargs, "k") => sp.k = 3
                   /\ ~HasKw(call.kwargs, "check_finite") => sp.check_finite = "False"
        /\ result.status = "returned" =>
               /\ Len(result.splines) = 3
               /\ result.splines[1].through = "maxima"
               /\ result.splines[2].through = "minima"
               /\ result.splines[3].through = "ecc"
        /\ Len(result.splines) = 3 =>
               \A i \in 1..Len(self.time) :
                   LET v == result.splines[3].y[i] IN
                   /\ v.peaks.mode = IF InRangeOf(result.splines[1], self.time[i])
                                     THEN "interpolate" ELSE "extrapolate"
                   /\ v.troughs.mode = IF InRangeOf(result.splines[2], self.time[i])
                                       THEN "interpolate" ELSE "extrapolate"

\* A returning call without ext in which a sample lies outside the maxima.
C8_Witness ==
    /\ NoExtGiven /\ result.status = "returned"
    /\ \E i \in 1..Len(self.time) :
           result.splines[3].y[i].peaks.mode = "extrapolate"

(***************************************************************************)
(* C9 as stated: generate_waveform raises whenever alignedSpin is asked    *)
(* for and the in-plane part of a spin exceeds 1e-5, or a spin has         *)
(* magnitude above 1, or a spin has not exactly 3 components.              *)
(***************************************************************************)
GenDone == pc = "gen done"

\* sqrt(x^2 + y^2) > 1e-5
InPlaneNormExceeds(chi) ==
    TripleGt(SumSquares(Slice(chi, 0, 2)), <<0, 0, 1>>)

PrecessingGiven ==
    gen.args.alignedSpin
        /\ (InPlaneNormExceeds(gen.args.chi1) \/ InPlaneNormExceeds(gen.args.chi2))

WrongSizeGiven == Len(gen.args.chi1) # 3 \/ Len(gen.args.chi2) # 3

C9_RejectsBadSpins ==
    (GenDone /\ (\/ PrecessingGiven
                 \/ OutOfRange(gen.args.chi1) \/ OutOfRange(gen.args.chi2)
                 \/ WrongSizeGiven))
        => gen.outcome.status = "raised"

(***************************************************************************)
(* C9 as amended: generate_waveform raises, before LALSimulation is        *)
(* called, whenever (a) alignedSpin is asked for and the in-plane part of  *)
(* a spin exceeds 1e-5, or (b) a spin has magnitude above 1, the in-plane  *)
(* components counting as zero when alignedSpin is asked for (those within *)
(* the tolerance are zeroed before the range check), or (c) a spin has not *)
(* exactly 3 components.  Whenever LALSimulation is called for aligned     *)
(* spins, the in-plane components it is given are zero and those of the    *)
(* input did not exceed the tolerance.                                     *)
(***************************************************************************)
Effective(chi) == IF gen.args.alignedSpin THEN ZeroInPlane(chi) ELSE chi

C9_RejectsBadSpinsAfterZeroing ==
    GenDone =>
        /\ (\/ PrecessingGiven
            \/ OutOfRange(Effective(gen.args.chi1))
            \/ OutOfRange(Effective(gen.args.chi2))
            \/ WrongSizeGiven)
               => gen.outcome.status = "raised"
        /\ (gen.outcome.status # "raised" /\ gen.args.alignedSpin)
               => /\ ~InPlaneNormExceeds(gen.args.chi1)
                  /\ ~InPlaneNormExceeds(gen.args.chi2)
                  /\ InPlane(gen.outcome.chi1) = Sp(0, 0)
                  /\ InPlane(gen.outcome.chi2) = Sp(0, 0)

\* An aligned-spin call was rejected for a spin whose z component alone is
\* above 1, its in-plane part being non-zero but within the tolerance.
C9_Witness ==
    /\ GenDone /\ gen.args.alignedSpin
    /\ gen.outcome.status = "raised"
    /\ gen.outcome.error = "chi2 out of range."
    /\ InPlane(gen.args.chi2) = Tolerance
    /\ Len(gen.args.chi1) = 3 /\ Len(gen.args.chi2) = 3

(***************************************************************************)
(* C6: the constructor fails, leaving no estimator, whenever the time      *)
(* array and the strain differ in length, or the times are not strictly    *)
(* increasing, or there are fewer than 5 samples.                          *)
(***************************************************************************)
Constructing == pc \in {"constructed", "failed"}

StrictlyIncreasing(t) == \A i \in 1..(Len(t) - 1) : t[i] < t[i + 1]

C6_RejectsInvalidInput ==
    (Constructing /\ (\/ Len(dataDict.t) # Len(dataDict.h22)
                      \/ ~StrictlyIncreasing(dataDict.t)
                      \/ Len(dataDict.t) < MinWindow))
        => (pc = "failed" /\ self = None)

(***************************************************************************)
(* C7: a fit whose curvature coefficient c2 is zero makes the constructor  *)
(* fail: no estimator is constructed from a non-finite peak time.          *)
(***************************************************************************)
C7_DegenerateFitRejected ==
    (Constructing /\ ctor.peak.status = "ok" /\ ctor.peak.coefs[3] = RInt(0))
        => (pc = "failed" /\ self = None)

(***************************************************************************)
(* C10: for time and func of one length n >= 5, wherever the maximum of    *)
(* func is, the clamped index is in 2 .. n-3, the window index-2 ..        *)
(* index+2 is five samples all within 0 .. n-1, and the window holds the   *)
(* position of func's maximum.                                             *)
(***************************************************************************)
FitAmp == [i \in 1..Len(dataDict.h22) |-> dataDict.h22[i].abs]

FitDone == pc = "fit done"

C10_WindowInRange ==
    (FitDone /\ Len(dataDict.t) = Len(FitAmp) /\ Len(dataDict.t) >= MinWindow) =>
        LET n == Len(dataDict.t)
            index == ctor.peak.index
            window == (index - 2)..(index + 2)
        IN  /\ 2 <= index /\ index <= n - 3
            /\ window \subseteq 0..(n - 1)
            /\ Cardinality(window) = MinWindow
            /\ argmax(FitAmp) \in window

\* The fit has run on an array longer than the window whose maximum is its
\* last sample, so that the index was clamped down to n - 3.
C10_Witness ==
    /\ FitDone
    /\ Len(dataDict.t) > MinWindow
    /\ argmax(FitAmp) = Len(dataDict.t) - 1
    /\ ctor.peak.index = Len(dataDict.t) - 3
    /\ ctor.peak.status = "ok"

====
